---- MODULE Spec2Model ----
(***************************************************************************)
(* A model of src/main.cpp: the owning character buffer My_string with its *)
(* special member functions, append and render, the composed types         *)
(* Std_string / My_custom, and the scenario routines that drive them.      *)
(*                                                                         *)
(* The heap is modelled explicitly: every new[] yields a block with its    *)
(* own allocated size and cells, every delete[] releases a block.  Reads   *)
(* and writes outside a block, reads of cells that were never written and  *)
(* releases of blocks that are not live are undefined behaviour: they are  *)
(* recorded in last.fault and their result is a nondeterministic choice.   *)
(***************************************************************************)
EXTENDS Integers, Sequences, FiniteSets, TLC

VARIABLES
    scenario,  \* the scenario call main() leaves active (main.cpp:280-294)
    pc,        \* the statement that scenario is at
    nops,      \* operations the harness has run
    alive,     \* which My_string variables hold an object
    _init,     \* My_string::_init   (main.cpp:126): a block, or NULL
    _length,   \* My_string::_length (main.cpp:127)
    _size,     \* My_string::_size   (main.cpp:128)
    heap,      \* the cells of every block new[] handed out
    live,      \* the blocks not released yet
    cout,      \* the lines written to std::cout
    last,      \* the operation just run: its name, target t and source s,
               \* the blocks it passed to delete[], and the undefined
               \* behaviour it ran into
    custom     \* the My_custom variables of case_4 (main.cpp:181-214)

vars == <<scenario, pc, nops, alive, _init, _length, _size, heap, live, cout,
          last, custom>>

(* ------------------------------ bounds --------------------------------- *)

\* number of My_string variables the operation harness works with
NumObjs == 3
\* longest C string handed to My_string(const char*) by the harness
MaxLen == 2
\* most bytes strlen may run past the end of a block before it meets a 0
MaxOverread == 1
\* number of operations the harness performs in one run
MaxOps == 4

(* ----------------------------- memory ---------------------------------- *)

\* nullptr
NULL == 0
\* a cell of a new char[n] block that has not been written yet
Indet == -1
\* the non-zero characters of the harness' C strings
Char == {1, 2}
\* a byte of memory: the terminator 0 or a character
Byte == {0} \cup Char

Objs == 1..NumObjs
\* at most one block per object, and one more while resize holds two
BufIds == 1..(NumObjs + 1)

\* the C strings the harness constructs from, without their terminator: a
\* character repeated 0 .. MaxLen times
Strings == {[i \in 1..n |-> c] : n \in 0..MaxLen, c \in Char}

\* std::strlen of a C string argument
strlen(str) == Len(str)

\* the address operator new[] returns: a block that is not live
FreshBuf(lv) == CHOOSE b \in BufIds \ lv : \A c \in BufIds \ lv : b <= c

\* new char[n]: cells indeterminate
NewArr(m, n) ==
    [h  |-> [m.h EXCEPT ![FreshBuf(m.lv)] = [i \in 1..n |-> Indet]],
     lv |-> m.lv \cup {FreshBuf(m.lv)}]

\* new char[n](): cells zeroed
NewArrZero(m, n) ==
    [h  |-> [m.h EXCEPT ![FreshBuf(m.lv)] = [i \in 1..n |-> 0]],
     lv |-> m.lv \cup {FreshBuf(m.lv)}]

\* delete[] p: a no-op on nullptr
DeleteArr(m, p) ==
    IF p = NULL THEN m
    ELSE [h |-> [m.h EXCEPT ![p] = <<>>], lv |-> m.lv \ {p}]

\* delete[] of a block that is not live
BadDelete(m, p) == p # NULL /\ p \notin m.lv

\* cell i (1-based) of block p; outside the block, or behind nullptr, the
\* cell is no storage of the program and reads as anything
Cell(m, p, i) ==
    IF p # NULL /\ i <= Len(m.h[p]) THEN m.h[p][i] ELSE Indet

\* the n bytes a read of block p from its start can yield: a written cell
\* yields its value, an indeterminate or out-of-block cell any byte
ReadSet(m, p, n) ==
    LET holes == {i \in 1..n : Cell(m, p, i) = Indet}
    IN {[i \in 1..n |-> IF i \in holes THEN g[i] ELSE Cell(m, p, i)] :
            g \in [holes -> Byte]}

\* whether that read touches a cell that was never written
ReadsIndet(m, p, n) ==
    \E i \in 1..n : p # NULL /\ i <= Len(m.h[p]) /\ m.h[p][i] = Indet

\* whether that read goes through a pointer to a released block
ReadsReleased(m, p, n) == n > 0 /\ p # NULL /\ p \notin m.lv

\* whether that read leaves a live block (or dereferences nullptr)
ReadsOutside(m, p, n) ==
    n > 0 /\ (p = NULL \/ (p \in m.lv /\ n > Len(m.h[p])))

\* the undefined behaviour of that read
ReadFaults(m, p, n) ==
    (IF ReadsIndet(m, p, n) THEN {"uninit_read"} ELSE {})
    \cup (IF ReadsOutside(m, p, n) THEN {"oob_read"} ELSE {})
    \cup (IF ReadsReleased(m, p, n) THEN {"uaf_read"} ELSE {})

\* std::memcpy(&p[off], src, n), src being the bytes read: the cells of
\* block p at off .. off+n-1 (0-based) that lie inside the block
MemcpyIn(m, p, off, src) ==
    IF p = NULL \/ Len(src) = 0 THEN m
    ELSE [m EXCEPT !.h[p] =
            [i \in 1..Len(m.h[p]) |->
                IF i > off /\ i <= off + Len(src) THEN src[i - off]
                ELSE m.h[p][i]]]

\* the bytes of that memcpy that fall past the end of block p
Spill(m, p, off, src) ==
    IF p = NULL THEN src
    ELSE IF off + Len(src) <= Len(m.h[p]) THEN <<>>
    ELSE SubSeq(src, (IF Len(m.h[p]) > off THEN Len(m.h[p]) - off ELSE 0) + 1,
                Len(src))

\* a heap overflow lands in a neighbouring live block v (its first cells),
\* or in no block of the program (v = NULL)
Overflow(m, v, spill) ==
    IF v = NULL \/ spill = <<>> THEN m
    ELSE [m EXCEPT !.h[v] =
            [i \in 1..Len(m.h[v]) |->
                IF i <= Len(spill) THEN spill[i] ELSE m.h[v][i]]]

Mem == [h |-> heap, lv |-> live]

(* ----------------------------- console --------------------------------- *)

\* one line of std::cout: the literal text, and for a line of print_str the
\* object name before it and the bytes rendered after it
Line(txt) == <<txt, "", <<>>>>

\* obj_name << " : " << the bytes
Rendered(obj_name, bytes) == <<" : ", obj_name, bytes>>

\* obj_name << " : No data available"
NoData(obj_name) == <<" : No data available", obj_name, <<>>>>

\* the harness reads the console after every operation, so there cout holds
\* the lines of the latest operation; a scenario accumulates its output
Emit(lines) ==
    cout' = IF scenario = "ops" THEN lines ELSE cout \o lines

NoFault == {}

Did(op, t, s, freed, fault) ==
    last' = [op |-> op, t |-> t, s |-> s, freed |-> freed, fault |-> fault]

(* --------------------------- My_string --------------------------------- *)

\* My_string()
DefaultCtor(o) ==
    /\ ~alive[o]
    /\ alive' = [alive EXCEPT ![o] = TRUE]
    /\ _init' = [_init EXCEPT ![o] = NULL]
    /\ _length' = [_length EXCEPT ![o] = 0]
    /\ _size' = [_size EXCEPT ![o] = 0]
    /\ UNCHANGED <<heap, live>>
    /\ Emit(<<Line("Default constructor has been called")>>)
    /\ Did("DefaultCtor", o, o, <<>>, NoFault)

\* My_string(const char* rhs)
CharCtor(o, rhs) ==
    /\ ~alive[o]
    /\ LET n  == strlen(rhs)
           m1 == NewArrZero(Mem, n)
           p  == FreshBuf(live)
           m2 == MemcpyIn(m1, p, 0, rhs)
       IN /\ alive' = [alive EXCEPT ![o] = TRUE]
          /\ _size' = [_size EXCEPT ![o] = n]
          /\ _length' = [_length EXCEPT ![o] = n]
          /\ _init' = [_init EXCEPT ![o] = p]
          /\ heap' = m2.h
          /\ live' = m2.lv
    /\ Emit(<<>>)
    /\ Did("CharCtor", o, o, <<>>, NoFault)

\* a copy constructor that copies the pointer instead of the bytes
CopyCtor_Shallow(t, s) ==
    /\ ~alive[t] /\ alive[s]
    /\ alive' = [alive EXCEPT ![t] = TRUE]
    /\ _length' = [_length EXCEPT ![t] = _length[s]]
    /\ _size' = [_size EXCEPT ![t] = _size[s]]
    /\ _init' = [_init EXCEPT ![t] = _init[s]]
    /\ UNCHANGED <<heap, live>>
    /\ Emit(<<Line("COPY constructor has been called")>>)
    /\ Did("CopyCtor", t, s, <<>>, NoFault)

\* My_string(const My_string& rhs)
CopyCtor(t, s) ==
    /\ ~alive[t] /\ alive[s]
    /\ LET n  == _length[s]
           m1 == NewArr(Mem, n)
           p  == FreshBuf(live)
       IN \E src \in ReadSet(m1, _init[s], n) :
            LET m2 == MemcpyIn(m1, p, 0, src)
            IN /\ alive' = [alive EXCEPT ![t] = TRUE]
               /\ _length' = [_length EXCEPT ![t] = _length[s]]
               /\ _size' = [_size EXCEPT ![t] = _size[s]]
               /\ _init' = [_init EXCEPT ![t] = p]
               /\ heap' = m2.h
               /\ live' = m2.lv
               /\ Did("CopyCtor", t, s, <<>>, ReadFaults(m1, _init[s], n))
    /\ Emit(<<Line("COPY constructor has been called")>>)

\* a move constructor that forgets to reset its source
MoveCtor_NoReset(t, s) ==
    /\ ~alive[t] /\ alive[s]
    /\ alive' = [alive EXCEPT ![t] = TRUE]
    /\ _init' = [_init EXCEPT ![t] = _init[s]]
    /\ _size' = [_size EXCEPT ![t] = _size[s]]
    /\ _length' = [_length EXCEPT ![t] = _length[s]]
    /\ UNCHANGED <<heap, live>>
    /\ Emit(<<Line("MOVE constructor has been called")>>)
    /\ Did("MoveCtor", t, s, <<>>, NoFault)

\* My_string(My_string&& rsh)
MoveCtor(t, s) ==
    /\ ~alive[t] /\ alive[s]
    /\ alive' = [alive EXCEPT ![t] = TRUE]
    /\ _init' = [_init EXCEPT ![t] = _init[s], ![s] = NULL]
    /\ _size' = [_size EXCEPT ![t] = _size[s], ![s] = 0]
    /\ _length' = [_length EXCEPT ![t] = _length[s], ![s] = 0]
    /\ UNCHANGED <<heap, live>>
    /\ Emit(<<Line("MOVE constructor has been called")>>)
    /\ Did("MoveCtor", t, s, <<>>, NoFault)

\* My_string& operator=(const My_string& rhs)
CopyAssign(t, s) ==
    /\ alive[t] /\ alive[s]
    /\ LET p0 == _init[t]
           m1 == IF p0 # NULL THEN DeleteArr(Mem, p0) ELSE Mem
           n  == _length[s]
           m2 == NewArr(m1, n)
           p  == FreshBuf(m1.lv)
           \* rhs._init is read after _init was reseated: with rhs == *this
           \* it is the new block
           sp == IF s = t THEN p ELSE _init[s]
       IN \E src \in ReadSet(m2, sp, n) :
            LET m3 == MemcpyIn(m2, p, 0, src)
            IN /\ _init' = [_init EXCEPT ![t] = p]
               /\ _size' = [_size EXCEPT ![t] = _size[s]]
               /\ _length' = [_length EXCEPT ![t] = _length[s]]
               /\ heap' = m3.h
               /\ live' = m3.lv
               /\ Did("CopyAssign", t, s,
                      (IF p0 # NULL THEN <<p0>> ELSE <<>>),
                      (IF BadDelete(Mem, p0) THEN {"double_free"} ELSE {})
                      \cup ReadFaults(m2, sp, n))
    /\ UNCHANGED alive
    /\ Emit(<<Line("COPY assignment has been called")>>)

\* a move assignment without the this != &rhs test: on self-assignment it
\* releases its own block and then resets itself
MoveAssign_NoGuard(t, s) ==
    /\ alive[t] /\ alive[s]
    /\ LET m1 == DeleteArr(Mem, _init[t])
       IN /\ _init' = [[_init EXCEPT ![t] = _init[s]] EXCEPT ![s] = NULL]
          /\ _length' = [[_length EXCEPT ![t] = _length[s]] EXCEPT ![s] = 0]
          /\ _size' = [[_size EXCEPT ![t] = _size[s]] EXCEPT ![s] = 0]
          /\ heap' = m1.h
          /\ live' = m1.lv
          /\ Emit(<<Line("MOVE assignment has been called")>>)
          /\ Did("MoveAssign", t, s,
                 (IF _init[t] # NULL THEN <<_init[t]>> ELSE <<>>),
                 (IF BadDelete(Mem, _init[t]) THEN {"double_free"} ELSE {}))
    /\ UNCHANGED alive

\* a move assignment that resets the source's pointer but not its length and
\* capacity
MoveAssign_KeepLength(t, s) ==
    /\ alive[t] /\ alive[s]
    /\ IF t # s
       THEN LET m1 == DeleteArr(Mem, _init[t])
            IN /\ _init' = [_init EXCEPT ![t] = _init[s], ![s] = NULL]
               /\ _length' = [_length EXCEPT ![t] = _length[s]]
               /\ _size' = [_size EXCEPT ![t] = _size[s]]
               /\ heap' = m1.h
               /\ live' = m1.lv
               /\ Emit(<<Line("MOVE assignment has been called")>>)
               /\ Did("MoveAssign", t, s,
                      (IF _init[t] # NULL THEN <<_init[t]>> ELSE <<>>),
                      (IF BadDelete(Mem, _init[t])
                          THEN {"double_free"} ELSE {}))
       ELSE /\ UNCHANGED <<_init, _length, _size, heap, live>>
            /\ Emit(<<>>)
            /\ Did("MoveAssign", t, s, <<>>, NoFault)
    /\ UNCHANGED alive

\* My_string& operator=(My_string&& rhs)
MoveAssign(t, s) ==
    /\ alive[t] /\ alive[s]
    /\ IF t # s
       THEN LET m1 == DeleteArr(Mem, _init[t])
            IN /\ _init' = [_init EXCEPT ![t] = _init[s], ![s] = NULL]
               /\ _length' = [_length EXCEPT ![t] = _length[s], ![s] = 0]
               /\ _size' = [_size EXCEPT ![t] = _size[s], ![s] = 0]
               /\ heap' = m1.h
               /\ live' = m1.lv
               /\ Emit(<<Line("MOVE assignment has been called")>>)
               /\ Did("MoveAssign", t, s,
                      (IF _init[t] # NULL THEN <<_init[t]>> ELSE <<>>),
                      (IF BadDelete(Mem, _init[t])
                          THEN {"double_free"} ELSE {}))
       ELSE /\ UNCHANGED <<_init, _length, _size, heap, live>>
            /\ Emit(<<>>)
            /\ Did("MoveAssign", t, s, <<>>, NoFault)
    /\ UNCHANGED alive

\* void resize(size_t new_length), on the object whose fields are p (_init),
\* len (_length) and size (_size); keep is what memcpy read from the old
\* block.  Yields the memory and the new _init; _size is not touched.
resize(m, p, len, size, new_length, keep) ==
    LET m1  == NewArr(m, size + new_length)
        aux == FreshBuf(m.lv)
        m2  == MemcpyIn(m1, aux, 0, keep)
    IN [m |-> DeleteArr(m2, p), p |-> aux]

\* the test of operator+= that decides whether the block is grown
NeedsResize(a, b) == _size[a] <= _length[b]

\* My_string& operator+=(const My_string& rhs)
OpPlusAssign(a, b) ==
    /\ alive[a] /\ alive[b]
    /\ \E keep \in ReadSet(Mem, _init[a], _length[a]) :
         LET grow == NeedsResize(a, b)
             r  == IF grow
                   THEN resize(Mem, _init[a], _length[a], _size[a],
                               _length[b], keep)
                   ELSE [m |-> Mem, p |-> _init[a]]
             \* rhs._init is read after resize: with rhs == *this it is the
             \* new block
             sp == IF b = a THEN r.p ELSE _init[b]
         IN \E src \in ReadSet(r.m, sp, _length[b]) :
              LET m4    == MemcpyIn(r.m, r.p, _length[a], src)
                  spill == Spill(r.m, r.p, _length[a], src)
              IN \E v \in IF spill = <<>> THEN {NULL}
                          ELSE {NULL} \cup (r.m.lv \ {r.p}) :
                   LET m5 == Overflow(m4, v, spill)
                   IN /\ _init' = [_init EXCEPT ![a] = r.p]
                      /\ heap' = m5.h
                      /\ live' = m5.lv
                      /\ Did("OpPlusAssign", a, b,
                             (IF grow /\ _init[a] # NULL
                                 THEN <<_init[a]>> ELSE <<>>),
                             (IF spill # <<>> THEN {"oob_write"} ELSE {})
                             \cup (IF grow /\ BadDelete(Mem, _init[a])
                                 THEN {"double_free"} ELSE {})
                             \cup ReadFaults(r.m, sp, _length[b])
                             \cup (IF grow
                                 THEN ReadFaults(Mem, _init[a], _length[a])
                                 ELSE {}))
    /\ UNCHANGED <<alive, _length, _size>>
    /\ Emit(<<>>)

\* ~My_string()
Dtor(o) ==
    /\ alive[o]
    /\ LET m1 == DeleteArr(Mem, _init[o])
       IN /\ heap' = m1.h
          /\ live' = m1.lv
    /\ alive' = [alive EXCEPT ![o] = FALSE]
    \* the storage of the variable is gone: its fields read as in Init
    /\ _init' = [_init EXCEPT ![o] = NULL]
    /\ _length' = [_length EXCEPT ![o] = 0]
    /\ _size' = [_size EXCEPT ![o] = 0]
    /\ Emit(<<Line("DESTRUCTOR has been called")>>)
    /\ Did("Dtor", o, o,
           (IF _init[o] # NULL THEN <<_init[o]>> ELSE <<>>),
           (IF BadDelete(Mem, _init[o]) THEN {"double_free"} ELSE {}))

\* the bytes strlen(_init) may run over past the end of the block before it
\* meets a 0
Overread == UNION {[1..k -> Char] : k \in 0..MaxOverread}

\* whether strlen finds a terminator inside the cells it is given
HasTerminator(cells) == \E i \in 1..Len(cells) : cells[i] = 0

\* the cells before the first 0
UpToTerminator(cells) ==
    LET z == CHOOSE i \in 1..Len(cells) :
                cells[i] = 0 /\ \A j \in 1..(i - 1) : cells[j] # 0
    IN SubSeq(cells, 1, z - 1)

\* void print_str(std::string obj_name)
print_str(o, obj_name) ==
    /\ alive[o]
    /\ IF _init[o] # NULL
       THEN \E cells \in ReadSet(Mem, _init[o], Len(heap[_init[o]])) :
              IF HasTerminator(cells)
              THEN /\ Emit(<<Rendered(obj_name, UpToTerminator(cells))>>)
                   /\ Did("print_str", o, o, <<>>,
                          ReadFaults(Mem, _init[o], Len(heap[_init[o]])))
              ELSE \E g \in Overread :
                   /\ Emit(<<Rendered(obj_name, cells \o g)>>)
                   /\ Did("print_str", o, o, <<>>,
                          {IF _init[o] \in live THEN "oob_read"
                                                ELSE "uaf_read"}
                          \cup ReadFaults(Mem, _init[o],
                                          Len(heap[_init[o]])))
       ELSE /\ Emit(<<NoData(obj_name)>>)
            /\ Did("print_str", o, o, <<>>, NoFault)
    /\ UNCHANGED <<alive, _init, _length, _size, heap, live>>

(* ------------------------ Std_string, My_custom ------------------------ *)

\* the My_custom variables of case_4
RHS == 1
LHS == 2
CustomObjs == {RHS, LHS}

\* Std_string(): the wrapped std::string and the line it logs
Std_string_Ctor ==
    [str |-> "default", out |-> <<Line("Std_string - Default constructor called")>>]

\* Std_string& operator=(const Std_string& rhs)
Std_string_CopyAssign(src) ==
    [dst |-> src, src |-> src,
     out |-> <<Line("Std_string - Copy assignation called")>>]

\* Std_string& operator=(Std_string&& rhs): std::string's move assignment
\* leaves the source valid but unspecified (left): empty, or as it was
Std_string_MoveAssign(src, left) ==
    [dst |-> src, src |-> left,
     out |-> <<Line("Std_string - move assignation called")>>]

\* what a moved-from std::string may hold
MovedFrom(str) == {"", str}

\* ~Std_string()
Std_string_Dtor == <<Line("Std_string - Destructor called")>>

\* My_custom(): the member is default-constructed, then the body logs
My_custom_Ctor(o) ==
    /\ ~custom[o].alive
    /\ custom' = [custom EXCEPT ![o] =
                    [alive |-> TRUE, _std_string |-> Std_string_Ctor.str]]
    /\ Emit(Std_string_Ctor.out
            \o <<Line("My_custom-Default constructor called")>>)
    /\ Did("My_custom", o, o, <<>>, NoFault)

\* a move constructor body that assigns the member without std::move, so
\* that the member is copied
My_custom_MoveBody_Copying(src, left) ==
    LET a == Std_string_CopyAssign(src)
    IN [a EXCEPT !.out =
            @ \o <<Line("My_custom - (copy) move constructor called")>>]

\* the body of My_custom(My_custom&& rhs): _str = std::move(rhs._str)
My_custom_MoveBody(src, left) ==
    LET a == Std_string_MoveAssign(src, left)
    IN [a EXCEPT !.out = @ \o <<Line("My_custom - move constructor called")>>]

\* My_custom(My_custom&& rhs): the member is default-constructed first (no
\* member initialiser), then the body runs
My_custom_MoveCtor(t, s) ==
    /\ ~custom[t].alive /\ custom[s].alive
    /\ \E left \in MovedFrom(custom[s]._std_string) :
         LET r == My_custom_MoveBody(custom[s]._std_string, left)
         IN /\ custom' = [custom EXCEPT
                            ![t] = [alive |-> TRUE, _std_string |-> r.dst],
                            ![s]._std_string = r.src]
            /\ Emit(Std_string_Ctor.out \o r.out)
    /\ Did("My_custom_move", t, s, <<>>, NoFault)

\* ~My_custom(): the body logs, then the member is destroyed
My_custom_Dtor(o) ==
    /\ custom[o].alive
    /\ custom' = [custom EXCEPT ![o] = [alive |-> FALSE, _std_string |-> ""]]
    /\ Emit(<<Line("My_custom - Destructor called")>> \o Std_string_Dtor)
    /\ Did("My_custom_dtor", o, o, <<>>, NoFault)

(* ----------------------------- scenarios ------------------------------- *)

\* the string literals of the scenarios, as character codes
\* "first Element "
FirstElement ==
    <<102, 105, 114, 115, 116, 32, 69, 108, 101, 109, 101, 110, 116,
      32>>
\* "second addition "
SecondAddition ==
    <<115, 101, 99, 111, 110, 100, 32, 97, 100, 100, 105, 116, 105, 111,
      110, 32>>
\* "someRandomMessage"
SomeRandomMessage ==
    <<115, 111, 109, 101, 82, 97, 110, 100, 111, 109, 77, 101, 115, 115,
      97, 103, 101>>
\* "Not empty"
NotEmpty ==
    <<78, 111, 116, 32, 101, 109, 112, 116, 121>>
\* "thisIsAssignmentIsTooLong"
TooLong ==
    <<116, 104, 105, 115, 73, 115, 65, 115, 115, 105, 103, 110, 109,
      101, 110, 116, 73, 115, 84, 111, 111, 76, 111, 110, 103>>
\* ""
EmptyLiteral == <<>>

\* a scenario's opening std::cout line
Banner(txt) ==
    /\ Emit(<<Line(txt)>>)
    /\ Did("banner", 0, 0, <<>>, NoFault)
    /\ UNCHANGED <<alive, _init, _length, _size, heap, live>>

MyStringVars == <<alive, _init, _length, _size, heap, live>>

\* one statement of scenario name: from position from to position to
At(name, from, to) ==
    /\ scenario = name
    /\ pc = from
    /\ pc' = to
    /\ UNCHANGED <<scenario, nops>>

\* void custom_append(): lhs is variable 1, rhs variable 2; at the closing
\* brace the variables are destroyed in reverse order
custom_append ==
    \/ At("custom_append", "start", "l219") /\ UNCHANGED custom
       /\ Banner("custom append (My_string)")
    \/ At("custom_append", "l219", "l222") /\ UNCHANGED custom
       /\ CharCtor(1, FirstElement)
    \/ At("custom_append", "l222", "l224") /\ UNCHANGED custom
       /\ CharCtor(2, SecondAddition)
    \/ At("custom_append", "l224", "l225") /\ UNCHANGED custom
       /\ OpPlusAssign(1, 2)
    \/ At("custom_append", "l225", "l226") /\ UNCHANGED custom
       /\ print_str(1, "lhs")
    \/ At("custom_append", "l226", "l226b") /\ UNCHANGED custom
       /\ Dtor(2)
    \/ At("custom_append", "l226b", "done") /\ UNCHANGED custom
       /\ Dtor(1)

\* void case_1(): rhs is variable 1, lhs_move 2, lhs_copy 3
case_1 ==
    \/ At("case_1", "start", "l231") /\ UNCHANGED custom
       /\ Banner("Case 1 : ")
    \/ At("case_1", "l231", "l232") /\ UNCHANGED custom
       /\ CharCtor(1, SomeRandomMessage)
    \/ At("case_1", "l232", "l235") /\ UNCHANGED custom
       /\ print_str(1, "rhs")
    \/ At("case_1", "l235", "l236") /\ UNCHANGED custom
       /\ MoveCtor(2, 1)
    \/ At("case_1", "l236", "l237") /\ UNCHANGED custom
       /\ print_str(1, "rhs")
    \/ At("case_1", "l237", "l240") /\ UNCHANGED custom
       /\ print_str(2, "lhs_move")
    \/ At("case_1", "l240", "l241") /\ UNCHANGED custom
       /\ CopyCtor(3, 2)
    \/ At("case_1", "l241", "l243") /\ UNCHANGED custom
       /\ print_str(3, "lhs_copy")
    \/ At("case_1", "l243", "l243b") /\ UNCHANGED custom
       /\ Dtor(3)
    \/ At("case_1", "l243b", "l243c") /\ UNCHANGED custom
       /\ Dtor(2)
    \/ At("case_1", "l243c", "done") /\ UNCHANGED custom
       /\ Dtor(1)

\* void case_2(): lhs is variable 1, rhs variable 2
case_2 ==
    \/ At("case_2", "start", "l249") /\ UNCHANGED custom
       /\ Banner("Case 2 : ")
    \/ At("case_2", "l249", "l250") /\ UNCHANGED custom
       /\ DefaultCtor(1)
    \/ At("case_2", "l250", "l251") /\ UNCHANGED custom
       /\ CharCtor(2, NotEmpty)
    \/ At("case_2", "l251", "l252") /\ UNCHANGED custom
       /\ CopyAssign(1, 2)
    \/ At("case_2", "l252", "l252b") /\ UNCHANGED custom
       /\ Dtor(2)
    \/ At("case_2", "l252b", "done") /\ UNCHANGED custom
       /\ Dtor(1)

\* void case_3(): rhs is variable 1, lhs 2, lhs_move 3
case_3 ==
    \/ At("case_3", "start", "l257") /\ UNCHANGED custom
       /\ Banner("Case 3 : ")
    \/ At("case_3", "l257", "l258") /\ UNCHANGED custom
       /\ CharCtor(1, TooLong)
    \/ At("case_3", "l258", "l261") /\ UNCHANGED custom
       /\ CharCtor(2, EmptyLiteral)
    \/ At("case_3", "l261", "l262") /\ UNCHANGED custom
       /\ CopyAssign(2, 1)
    \/ At("case_3", "l262", "l264") /\ UNCHANGED custom
       /\ print_str(2, "lhs")
    \/ At("case_3", "l264", "l265") /\ UNCHANGED custom
       /\ CharCtor(3, EmptyLiteral)
    \/ At("case_3", "l265", "l266") /\ UNCHANGED custom
       /\ MoveAssign(3, 2)
    \/ At("case_3", "l266", "l267") /\ UNCHANGED custom
       /\ print_str(3, "lhs_move")
    \/ At("case_3", "l267", "l268") /\ UNCHANGED custom
       /\ print_str(2, "lhs")
    \/ At("case_3", "l268", "l268b") /\ UNCHANGED custom
       /\ Dtor(3)
    \/ At("case_3", "l268b", "l268c") /\ UNCHANGED custom
       /\ Dtor(2)
    \/ At("case_3", "l268c", "done") /\ UNCHANGED custom
       /\ Dtor(1)

\* void case_4()
case_4 ==
    \/ At("case_4", "start", "l274") /\ UNCHANGED custom
       /\ Banner("Trying to move (Case 4)")
    \/ At("case_4", "l274", "l275") /\ UNCHANGED MyStringVars
       /\ My_custom_Ctor(RHS)
    \/ At("case_4", "l275", "l277") /\ UNCHANGED MyStringVars
       /\ My_custom_MoveCtor(LHS, RHS)
    \/ At("case_4", "l277", "l277b") /\ UNCHANGED MyStringVars
       /\ My_custom_Dtor(LHS)
    \/ At("case_4", "l277b", "done") /\ UNCHANGED MyStringVars
       /\ My_custom_Dtor(RHS)

\* a new variable takes the first slot that holds no object (the slots are
\* interchangeable names)
FreeSlot(o) == ~alive[o] /\ \A q \in Objs : q < o => alive[q]

\* one more operation of the harness
HarnessStep ==
    /\ scenario = "ops"
    /\ nops < MaxOps
    /\ nops' = nops + 1
    /\ UNCHANGED <<scenario, pc, custom>>

\* the operations of My_string in any order, on up to NumObjs variables
Harness ==
    \/ \E o \in Objs : HarnessStep /\ FreeSlot(o) /\ DefaultCtor(o)
    \/ \E o \in Objs, str \in Strings :
         HarnessStep /\ FreeSlot(o) /\ CharCtor(o, str)
    \/ \E t \in Objs, s \in Objs : HarnessStep /\ FreeSlot(t) /\ CopyCtor(t, s)
    \/ \E t \in Objs, s \in Objs : HarnessStep /\ FreeSlot(t) /\ MoveCtor(t, s)
    \/ \E t \in Objs, s \in Objs : HarnessStep /\ CopyAssign(t, s)
    \/ \E t \in Objs, s \in Objs : HarnessStep /\ MoveAssign(t, s)
    \/ \E a \in Objs, b \in Objs : HarnessStep /\ OpPlusAssign(a, b)
    \/ \E o \in Objs : HarnessStep /\ Dtor(o)
    \/ \E o \in Objs : HarnessStep /\ print_str(o, "obj")

\* main() runs the one scenario call its source leaves active; "ops" is the
\* harness
Init ==
    /\ scenario \in {"ops", "custom_append", "case_1", "case_2", "case_3", "case_4"}
    /\ pc = "start"
    /\ nops = 0
    /\ alive = [o \in Objs |-> FALSE]
    /\ _init = [o \in Objs |-> NULL]
    /\ _length = [o \in Objs |-> 0]
    /\ _size = [o \in Objs |-> 0]
    /\ heap = [b \in BufIds |-> <<>>]
    /\ live = {}
    /\ cout = <<>>
    /\ last = [op |-> "none", t |-> 0, s |-> 0, freed |-> <<>>, fault |-> {}]
    /\ custom = [o \in CustomObjs |-> [alive |-> FALSE, _std_string |-> ""]]

Next == Harness \/ custom_append \/ case_1 \/ case_2 \/ case_3 \/ case_4

Spec == Init /\ [][Next]_vars
(* --------------------------- observations ------------------------------ *)

\* the logical content of an object: its first _length bytes
Content(o) == [i \in 1.._length[o] |-> Cell(Mem, _init[o], i)]

\* the whole block an object holds
Block(o) == IF _init[o] = NULL THEN <<>> ELSE heap[_init[o]]

\* the empty-marker state
EmptyMarker(o) == _init[o] = NULL /\ _length[o] = 0 /\ _size[o] = 0

\* the line std::cout received last
LastLine == cout[Len(cout)]

\* the step just taken performed op on target t with source s
Stepped(ops, t, s) == last'.op \in ops /\ last'.t = t /\ last'.s = s

(* ------------------------------ claims --------------------------------- *)

\* C1: a transfer (move construction or move assignment) from S into a
\* distinct T gives T the content, length and capacity S had, T holds the
\* very block S held and no block is allocated, S is left in the
\* empty-marker state, and rendering an object in that state reports
\* "No data available".
C1_Transfer ==
    [][/\ \A t \in Objs, s \in Objs :
            (Stepped({"MoveCtor", "MoveAssign"}, t, s) /\ t # s) =>
                /\ Content(t)' = Content(s)
                /\ _length'[t] = _length[s]
                /\ _size'[t] = _size[s]
                /\ _init'[t] = _init[s]
                /\ Block(t)' = Block(s)
                /\ live' \subseteq live
                /\ EmptyMarker(s)'
       /\ \A o \in Objs :
            (Stepped({"print_str"}, o, o) /\ EmptyMarker(o)) =>
                LastLine'[1] = " : No data available"]_vars

\* C1 witness: case_1 after it rendered rhs, which was moved into lhs_move
C1_Witness ==
    /\ scenario = "case_1" /\ pc = "l237"
    /\ last.op = "print_str" /\ last.t = 1
    /\ LastLine = NoData("rhs")
    /\ EmptyMarker(1)
    /\ Content(2) = SomeRandomMessage

\* C2: a duplication (copy construction or copy assignment) from S into a
\* distinct T leaves S's data, length and capacity unchanged, makes T's
\* content equal to S's and gives T a block of its own; and the mutation of
\* T that follows (append, assign, destroy) does not change S's block or
\* content.
C2_DuplicateIndependent ==
    [][/\ \A t \in Objs, s \in Objs :
            (Stepped({"CopyCtor", "CopyAssign"}, t, s) /\ t # s) =>
                /\ _init'[s] = _init[s]
                /\ _length'[s] = _length[s]
                /\ _size'[s] = _size[s]
                /\ Block(s)' = Block(s)
                /\ Content(t)' = Content(s)'
                /\ _init'[t] # _init'[s]
       /\ \A t \in Objs, s \in Objs :
            (/\ last.op \in {"CopyCtor", "CopyAssign"}
             /\ last.t = t /\ last.s = s /\ t # s
             /\ last'.op \in {"OpPlusAssign", "CopyAssign", "MoveAssign",
                              "Dtor"}
             /\ last'.t = t
             /\ ~(last'.op = "MoveAssign" /\ last'.s = s)) =>
                /\ _init'[s] = _init[s]
                /\ Block(s)' = Block(s)
                /\ Content(s)' = Content(s)]_vars

\* every block has exactly one owner, no owner holds a released block, and
\* no delete[] hit a block that was not live
SingleOwner ==
    /\ \A a \in Objs, b \in Objs :
         (a # b /\ alive[a] /\ alive[b] /\ _init[a] # NULL) =>
            _init[a] # _init[b]
    /\ \A o \in Objs : (alive[o] /\ _init[o] # NULL) => _init[o] \in live
    /\ \A b \in live : \E o \in Objs : alive[o] /\ _init[o] = b
    /\ "double_free" \notin last.fault
    /\ (\A o \in Objs : ~alive[o]) => live = {}

\* C3: at every moment each block has exactly one owner, a block is
\* released exactly once (never twice, never left unreleased once every
\* object is destroyed), and destroying an object in the empty-marker state
\* releases nothing.
C3_ReleaseOnce ==
    /\ []SingleOwner
    /\ [][\A o \in Objs :
            (Stepped({"Dtor"}, o, o) /\ EmptyMarker(o)) =>
                (live' = live /\ heap' = heap /\ last'.freed = <<>>)]_vars

\* C3 witness: case_3 at its end: every object destroyed, the transferred-
\* from lhs among them, and no block left
C3_Witness ==
    /\ scenario = "case_3" /\ pc = "done"
    /\ \A o \in Objs : ~alive[o]
    /\ live = {}
    /\ last.op = "Dtor" /\ last.freed # <<>>

\* C4: transfer-assigning an object to itself changes nothing: not its data
\* pointer, content, length or capacity, no block is allocated or released,
\* and no line is written.
C4_SelfMove ==
    [][\A x \in Objs :
        Stepped({"MoveAssign"}, x, x) =>
            /\ _init'[x] = _init[x]
            /\ Content(x)' = Content(x)
            /\ _length'[x] = _length[x]
            /\ _size'[x] = _size[x]
            /\ heap' = heap
            /\ live' = live
            /\ last'.freed = <<>>
            /\ cout' = (IF scenario = "ops" THEN <<>> ELSE cout)]_vars

\* C4 witness: the harness just assigned a non-empty object to itself
C4_Witness ==
    /\ last.op = "MoveAssign" /\ last.t = last.s
    /\ alive[last.t]
    /\ Len(Content(last.t)) = MaxLen

\* C5: in custom_append, after lhs += rhs, lhs holds "first Element second
\* addition ", its length is 30, and that is what print_str renders.
C5_AppendConcatenates ==
    (scenario = "custom_append" /\ pc \in {"l225", "l226"}) =>
        /\ _length[1] = 30
        /\ Content(1) = FirstElement \o SecondAddition
        /\ pc = "l226" =>
             LastLine = Rendered("lhs", FirstElement \o SecondAddition)

\* whether line l stands before line k in std::cout
Before(l, k) ==
    \E i \in 1..Len(cout), j \in 1..Len(cout) :
        i < j /\ cout[i] = l /\ cout[j] = k

\* C6: in case_4 the move-constructed lhs holds the value its source held
\* ("default"), the member's move assignment is logged before My_custom's
\* move constructor, and no line of a duplicating operation is ever logged.
C6_CompositionMoves ==
    scenario = "case_4" =>
        /\ \A i \in 1..Len(cout) :
             /\ cout[i] # Line("Std_string - Copy assignation called")
             /\ cout[i] # Line("My_custom-move failed!")
        /\ pc = "l277" => custom[LHS]._std_string = "default"
        /\ pc \in {"l277", "l277b", "done"} =>
             Before(Line("Std_string - move assignation called"),
                    Line("My_custom - move constructor called"))

\* C6 witness: case_4 right after lhs was move-constructed from rhs
C6_Witness ==
    /\ scenario = "case_4" /\ pc = "l277"
    /\ last.op = "My_custom_move" /\ last.t = LHS /\ last.s = RHS
    /\ custom[LHS].alive
    /\ custom[LHS]._std_string = "default"

\* C7: capacity (_size) is at least length (_length) in every object, and an
\* object whose data is nullptr has length 0 and capacity 0.
C7_CapacityHoldsLength ==
    \A o \in Objs :
        alive[o] =>
            /\ _size[o] >= _length[o]
            /\ _init[o] = NULL => (_length[o] = 0 /\ _size[o] = 0)

\* C7 witness: the harness just appended to a non-empty object, growing its
\* block, while another object is in the transferred-from state
C7_Witness ==
    /\ last.op = "OpPlusAssign" /\ last.freed # <<>>
    /\ _length[last.t] > 0
    /\ \E o \in Objs : alive[o] /\ o # last.t /\ EmptyMarker(o)

\* C8: a += b grows a's block whenever it cannot hold length(a) + length(b)
\* bytes, and no byte of the append is written outside a's block.
C8_AppendInBounds ==
    [][\A a \in Objs, b \in Objs :
        Stepped({"OpPlusAssign"}, a, b) =>
            /\ Len(Block(a)) < _length[a] + _length[b] =>
                  Len(Block(a))' >= _length[a] + _length[b]
            /\ "oob_write" \notin last'.fault]_vars

\* C9: duplicate-assigning an object to itself leaves its content, length
\* and capacity unchanged and reads no block that was already released.
C9_SelfCopy ==
    [][\A x \in Objs :
        Stepped({"CopyAssign"}, x, x) =>
            /\ Content(x)' = Content(x)
            /\ _length'[x] = _length[x]
            /\ _size'[x] = _size[x]
            /\ "uaf_read" \notin last'.fault]_vars

\* C10: print_str reports "No data available" exactly for an object in the
\* empty-marker state, and otherwise renders exactly the object's _length
\* content bytes, reading only cells of its block.
C10_Render ==
    \A o \in Objs :
        (last.op = "print_str" /\ last.t = o) =>
            /\ LastLine[1] = " : No data available" <=> EmptyMarker(o)
            /\ ~EmptyMarker(o) =>
                 (LastLine[3] = Content(o) /\ last.fault = {})
====
